---- MODULE Spec2Model ----
(***************************************************************************)
(* Conversation controller of SuperAgent-UI (src/SuperAgent-UI/src/App.jsx) *)
(*                                                                         *)
(* The component keeps four pieces of React state (prompt, messages,       *)
(* isLoading, error).  handleSubmit runs synchronously up to the await of  *)
(* axios.post, and resumes, in one uninterrupted run, when the promise     *)
(* settles.  JavaScript strings are modelled as sequences of one-character *)
(* strings so that String.prototype.trim is computed, not assumed.         *)
(***************************************************************************)
EXTENDS Naturals, Sequences, FiniteSets

VARIABLES
    prompt,      \* useState('')    : value of the input field
    messages,    \* useState([])    : the conversation
    isLoading,   \* useState(false) : the in-flight flag
    error,       \* useState(null)  : the displayed error
    pending,     \* axios.post promises that have not settled, in issue order
    owner,       \* owner[i] = id of the handleSubmit call that appended messages[i]
    nextId,      \* id the next accepted handleSubmit call gets
    lastOp,      \* history: the handler that ran last
    before,      \* history: messages as they were when the last accepted submit began
    sent,        \* history: trimmedPrompt of the last accepted submit
    lastReply,   \* history: the backend reply of the last settlement
    typed,       \* history: the input text as it was when the last accepted submit began
    issued,      \* history: number of axios.post calls made
    succeeded    \* history: number of axios.post calls that resolved

vars == <<prompt, messages, isLoading, error, pending, owner, nextId,
          lastOp, before, sent, lastReply, typed, issued, succeeded>>

---------------------------------------------------------------------------
(* Bounds of the model *)

MaxLen == 2        \* longest text typed into the input field
MaxMsgs == 4       \* longest conversation
MaxSubmits == 3    \* accepted submissions in one session
MaxInFlight == 2   \* simultaneously outstanding requests (unguarded handler only)

---------------------------------------------------------------------------
(* JavaScript values *)

Str(s) == [t |-> "string", v |-> s]
Null == [t |-> "null", v |-> <<>>]
Undefined == [t |-> "undefined", v |-> <<>>]

Whitespace == {" "}
Alphabet == {" ", "a"}

FallbackText == <<"N","o"," ","r","e","s","p","o","n","s","e"," ",
                  "r","e","c","e","i","v","e","d",".">>

ErrorText == <<"U","n","a","b","l","e"," ","t","o"," ","c","o","n","t","a","c","t"," ",
               "t","h","e"," ","S","u","p","e","r","A","g","e","n","t"," ",
               "b","a","c","k","e","n","d","."," ",
               "P","l","e","a","s","e"," ","t","r","y"," ","a","g","a","i","n",".">>

(* String.prototype.trim: drop the leading, then the trailing, whitespace *)
RECURSIVE TrimStart(_)
TrimStart(s) ==
    IF s # <<>> /\ Head(s) \in Whitespace THEN TrimStart(Tail(s)) ELSE s

RECURSIVE TrimEnd(_)
TrimEnd(s) ==
    IF s # <<>> /\ s[Len(s)] \in Whitespace THEN TrimEnd(SubSeq(s, 1, Len(s) - 1)) ELSE s

TrimNothing(s) == s

Trim(s) == TrimEnd(TrimStart(s))

---------------------------------------------------------------------------
(* The backend and axios *)

ResponseTexts == {<<>>, <<"o","k">>}

(* What comes back for one request: no answer at all, an answer with a      *)
(* non-2xx status, a 2xx answer whose body is not an object of the expected *)
(* structure, or a 2xx answer whose body is an object; the object's         *)
(* response field is a string, null, or absent (Undefined).                 *)
Replies ==
    {[kind |-> k, response |-> Undefined] :
        k \in {"network_failure", "non_2xx", "malformed_body"}}
    \cup {[kind |-> "object", response |-> r] :
        r \in {Undefined, Null} \cup {Str(t) : t \in ResponseTexts}}

NoReply == [kind |-> "none", response |-> Undefined]

(* axios.post: the promise rejects when there is no answer or the status is *)
(* outside 2xx; otherwise it resolves with the body as data.  A body that   *)
(* is not an object of the expected structure is still resolved data.       *)
AxiosPost(reply) ==
    IF reply.kind \in {"network_failure", "non_2xx"}
    THEN [status |-> "rejected", data |-> reply]
    ELSE [status |-> "resolved", data |-> reply]

(* data?.response *)
ResponseOf(data) ==
    IF data.kind = "object" THEN data.response ELSE Undefined

---------------------------------------------------------------------------
(* Pieces of handleSubmit and of the form *)

UserMessage(p) == [role |-> "user", content |-> p]

AgentMessage(c) == [role |-> "agent", content |-> c]

(* a || in place of the ??: an empty response text is replaced as well *)
AgentResponseOr(data) ==
    LET r == ResponseOf(data)
    IN  IF r.t \in {"null", "undefined"} \/ r.v = <<>> THEN FallbackText ELSE r.v

(* no fallback: an absent response yields an empty text *)
AgentResponseRaw(data) == ResponseOf(data).v

(* data?.response ?? 'No response received.' *)
AgentResponse(data) ==
    LET r == ResponseOf(data)
    IN  IF r.t \in {"null", "undefined"} THEN FallbackText ELSE r.v

RollbackNothing(list) == list

(* prev.slice(1): the first element is dropped instead of the last *)
RollbackFirst(list) == IF Len(list) = 0 THEN list ELSE Tail(list)

(* prev.slice(0, -2): one element too many is dropped *)
RollbackTwo(list) == IF Len(list) <= 1 THEN <<>> ELSE SubSeq(list, 1, Len(list) - 2)

(* prev.slice(0, -1) *)
Rollback(list) ==
    IF Len(list) = 0 THEN list ELSE SubSeq(list, 1, Len(list) - 1)

RequestPromptRaw(trimmedPrompt) == prompt

(* { prompt: trimmedPrompt }, the body of the request *)
RequestPrompt(trimmedPrompt) == trimmedPrompt

KeepPrompt == prompt

(* setPrompt('') *)
PromptOnSubmit == <<>>

KeepError == error

(* setError(null) *)
ErrorOnSubmit == Null

(* setError('Unable to contact the SuperAgent backend. Please try again.') *)
ErrorOnFailure == Str(ErrorText)

LoadingUnlessRejected(status) == status = "rejected"

(* finally { setIsLoading(false) } *)
LoadingAfter(status) == FALSE

NeverDisabled == FALSE

(* disabled={isLoading} on the input and on the submit button *)
Disabled == isLoading

RemoveAt(list, i) == SubSeq(list, 1, i - 1) \o SubSeq(list, i + 1, Len(list))

(* The values the input field can take by one edit of the text p: a        *)
(* character typed at its end, or its last character deleted.              *)
Edits(p) ==
    (IF Len(p) < MaxLen THEN {Append(p, c) : c \in Alphabet} ELSE {})
    \cup (IF Len(p) > 0 THEN {SubSeq(p, 1, Len(p) - 1)} ELSE {})

(* the model's bounds, as a guard of an accepted submission *)
WithinBounds ==
    /\ nextId <= MaxSubmits
    /\ Len(pending) < MaxInFlight
    /\ Len(messages) + Len(pending) + 2 <= MaxMsgs

---------------------------------------------------------------------------
(* State after construction *)

Init ==
    /\ prompt = <<>>
    /\ messages = <<>>
    /\ isLoading = FALSE
    /\ error = Null
    /\ pending = <<>>
    /\ owner = <<>>
    /\ nextId = 1
    /\ lastOp = "init"
    /\ before = <<>>
    /\ sent = <<>>
    /\ lastReply = NoReply
    /\ typed = <<>>
    /\ issued = 0
    /\ succeeded = 0

---------------------------------------------------------------------------
(* Handlers *)

(* onChange={(event) => setPrompt(event.target.value)} *)
SetPrompt(v) ==
    /\ prompt' = v
    /\ lastOp' = "change"
    /\ UNCHANGED <<messages, isLoading, error, pending, owner, nextId,
                   before, sent, lastReply, typed, issued, succeeded>>

(* handleSubmit, from its call to the await of axios.post *)
HandleSubmit ==
    LET trimmedPrompt == Trim(prompt)
    IN  IF trimmedPrompt = <<>>
        THEN /\ lastOp' = "ignored"
             /\ UNCHANGED <<prompt, messages, isLoading, error, pending, owner,
                            nextId, before, sent, lastReply, typed, issued, succeeded>>
        ELSE /\ WithinBounds
             /\ messages' = Append(messages, UserMessage(trimmedPrompt))
             /\ owner' = Append(owner, nextId)
             /\ prompt' = PromptOnSubmit
             /\ isLoading' = TRUE
             /\ error' = ErrorOnSubmit
             /\ pending' = Append(pending, [id |-> nextId,
                                             prompt |-> RequestPrompt(trimmedPrompt)])
             /\ issued' = issued + 1
             /\ nextId' = nextId + 1
             /\ lastOp' = "submit"
             /\ before' = messages
             /\ sent' = trimmedPrompt
             /\ lastReply' = NoReply
             /\ typed' = prompt
             /\ UNCHANGED succeeded

(* handleSubmit, from the settlement of the i-th outstanding axios.post on *)
Settle(i, reply) ==
    LET req == pending[i]
        out == AxiosPost(reply)
    IN  /\ IF out.status = "resolved"
           THEN /\ messages' = Append(messages, AgentMessage(AgentResponse(out.data)))
                /\ owner' = Append(owner, req.id)
                /\ error' = error
                /\ succeeded' = succeeded + 1
           ELSE /\ error' = ErrorOnFailure
                /\ messages' = Rollback(messages)
                /\ owner' = Rollback(owner)
                /\ UNCHANGED succeeded
        /\ isLoading' = LoadingAfter(out.status)
        /\ pending' = RemoveAt(pending, i)
        /\ lastOp' = out.status
        /\ lastReply' = reply
        /\ UNCHANGED <<prompt, nextId, before, sent, typed, issued>>

(* the user types into the input field, which is disabled while loading *)
InputChange == \E v \in Edits(prompt) : ~Disabled /\ SetPrompt(v)

(* The user tries to submit the form.  While the controls are disabled the *)
(* browser dispatches no submit event and handleSubmit does not run.       *)
FormSubmit ==
    IF Disabled
    THEN /\ lastOp' = "blocked"
         /\ UNCHANGED <<prompt, messages, isLoading, error, pending, owner,
                        nextId, before, sent, lastReply, typed, issued, succeeded>>
    ELSE HandleSubmit

Settlement == \E i \in 1..Len(pending) : \E reply \in Replies : Settle(i, reply)

Next == InputChange \/ FormSubmit \/ Settlement

Spec == Init /\ [][Next]_vars

(* The handler and the setter called with no regard for the disabled controls *)
AnyChange == \E v \in Edits(prompt) : SetPrompt(v)

AnySubmit == HandleSubmit

NextUnguarded == AnyChange \/ AnySubmit \/ Settlement

SpecUnguarded == Init /\ [][NextUnguarded]_vars

(* Every request that was issued settles in the end: axios.post runs to    *)
(* completion, there is no cancellation and nothing else to wait for.      *)
SpecFair == Spec /\ WF_vars(Settlement)

---------------------------------------------------------------------------
(* Vocabulary of the properties *)

OnlyWhitespace(s) == \A i \in 1..Len(s) : s[i] \in Whitespace

IsTrimmed(s) == s # <<>> /\ s[1] \notin Whitespace /\ s[Len(s)] \notin Whitespace

Front(list) == SubSeq(list, 1, Len(list) - 1)

Paired(list) ==
    /\ Len(list) % 2 = 0
    /\ \A i \in 1..Len(list) :
          list[i].role = (IF i % 2 = 1 THEN "user" ELSE "agent")

IsStringReply(reply) == reply.kind = "object" /\ reply.response.t = "string"

ControllerState == <<prompt, messages, isLoading, error, pending, nextId>>

---------------------------------------------------------------------------
(* C1: once an accepted submit(P), P non-empty and trimmed, has settled    *)
(* with a payload whose response field is the string R, messages is the    *)
(* list from before the submit followed by {user, P} and then {agent, R}.  *)
C1_SuccessAppendsPair ==
    (lastOp = "resolved" /\ IsStringReply(lastReply)) =>
        /\ IsTrimmed(sent)
        /\ messages = before \o <<[role |-> "user", content |-> sent],
                                  [role |-> "agent", content |-> lastReply.response.v]>>

C1_Witness ==
    /\ lastOp = "resolved"
    /\ lastReply = [kind |-> "object", response |-> Str(<<"o", "k">>)]
    /\ sent = <<"a", "a">>
    /\ Len(before) = 2
    /\ messages = before \o <<[role |-> "user", content |-> <<"a", "a">>],
                              [role |-> "agent", content |-> <<"o", "k">>]>>

(* C2: once the outbound call of a submit has failed, messages is the list *)
(* from before the submit and error is the fixed text; this holds after    *)
(* every failure, also after several in a row.                             *)
C2_FailureRestores ==
    lastOp = "rejected" =>
        /\ messages = before
        /\ error = Str(ErrorText)

C2_Witness ==
    /\ lastOp = "rejected"
    /\ nextId = 4
    /\ messages = <<>>
    /\ error = Str(ErrorText)

(* C3: a submit of an empty or whitespace-only prompt changes nothing:     *)
(* prompt, messages, isLoading and error stay as they are and no request   *)
(* is issued.                                                              *)
C3_EmptySubmitIsNoOp ==
    [][(lastOp' \in {"ignored", "submit"} /\ OnlyWhitespace(prompt))
          => UNCHANGED ControllerState]_vars

C3_Witness ==
    /\ lastOp = "ignored"
    /\ prompt = <<" ", " ">>
    /\ error = Str(ErrorText)
    /\ Len(messages) = 2
    /\ ~isLoading

(* C4: isLoading is true exactly while a request has been issued and has   *)
(* not settled; it is false initially and after every settlement.          *)
C4_LoadingIffInFlight ==
    /\ isLoading <=> (Len(pending) > 0)
    /\ lastOp \in {"init", "resolved", "rejected"} => ~isLoading
    /\ lastOp \in {"submit", "blocked"} => isLoading

C4_Witness ==
    /\ lastOp = "rejected"
    /\ ~isLoading
    /\ pending = <<>>
    /\ Len(messages) = 2

(* C5: at most one request is in flight, and no step taken while isLoading *)
(* is true appends a user message or issues a request.                     *)
C5_SingleInFlight ==
    /\ [](Len(pending) <= 1)
    /\ [][isLoading =>
            /\ Len(pending') <= Len(pending)
            /\ nextId' = nextId
            /\ \/ messages' = messages
               \/ Len(messages') < Len(messages)
               \/ messages'[Len(messages')].role = "agent"]_vars

C5_Witness ==
    /\ lastOp = "blocked"
    /\ isLoading
    /\ Len(pending) = 1
    /\ Len(messages) = 3

(* C6: whenever no request is in flight, messages has even length and is   *)
(* made of pairs, a user message directly followed by one agent message.   *)
C6_NoDanglingUser ==
    ~isLoading => Paired(messages)

C6_Witness ==
    /\ lastOp = "rejected"
    /\ ~isLoading
    /\ Len(messages) = 2
    /\ Paired(messages)

(* C7: error is null while a submission is in flight, becomes non-null     *)
(* only in a step that settles a request as failed, and is null after a    *)
(* success, also one that follows a failure.                               *)
C7_ErrorLifecycle ==
    /\ [](isLoading => error = Null)
    /\ [](lastOp = "resolved" => error = Null)
    /\ [][(error' # error /\ error' # Null)
             => (lastOp' = "rejected" /\ Len(pending') < Len(pending))]_vars

C7_Witness ==
    /\ lastOp = "resolved"
    /\ error = Null
    /\ nextId = 3
    /\ Len(messages) = 2

(* C8: a success whose payload has no response field is not rolled back,   *)
(* leaves error null and appends an agent message with the fallback text.  *)
C8_FallbackOnMissingResponse ==
    (lastOp \in {"resolved", "rejected"} /\ lastReply = [kind |-> "object", response |-> Undefined]) =>
        /\ messages = before \o <<[role |-> "user", content |-> sent],
                                  [role |-> "agent", content |-> FallbackText]>>
        /\ error = Null
        /\ ~isLoading

C8_Witness ==
    /\ lastOp = "resolved"
    /\ lastReply = [kind |-> "object", response |-> Undefined]
    /\ messages = <<[role |-> "user", content |-> <<"a">>],
                    [role |-> "agent", content |-> FallbackText]>>

(* C9: a network failure, a non-2xx status and a body that is not of the   *)
(* expected structure are all handled as the same error: the fixed error   *)
(* text, the optimistic user message rolled back, isLoading false and no   *)
(* agent message appended.                                                 *)
C9_AllFailuresAlike ==
    (lastOp \in {"resolved", "rejected"}
        /\ lastReply.kind \in {"network_failure", "non_2xx", "malformed_body"}) =>
        /\ error = Str(ErrorText)
        /\ messages = before
        /\ ~isLoading

(* C10: with handleSubmit callable while a request is outstanding, the     *)
(* failure of one submission while the last message is the user message of *)
(* another, still outstanding, submission removes that other message and   *)
(* keeps every message of the submissions that are no longer outstanding,  *)
(* the failing one's included; and each settlement sets isLoading to false *)
(* whether or not requests remain.                                         *)
C10_RollbackHitsOtherSubmission ==
    /\ [][(lastOp' = "rejected" /\ Len(pending') < Len(pending) /\ owner # <<>>
             /\ owner[Len(owner)] \in {pending'[i].id : i \in 1..Len(pending')})
            => /\ \A i \in 1..Len(owner') : owner'[i] # owner[Len(owner)]
               /\ \A i \in 1..Len(owner) :
                     owner[i] \notin {pending'[j].id : j \in 1..Len(pending')}
                        => (i <= Len(owner') /\ owner'[i] = owner[i]
                                             /\ messages'[i] = messages[i])]_vars
    /\ [][Len(pending') < Len(pending) => ~isLoading']_vars

C10_Witness ==
    /\ messages = <<[role |-> "user", content |-> <<"a">>],
                    [role |-> "agent", content |-> <<"o", "k">>]>>
    /\ owner = <<1, 2>>
    /\ sent = <<"a", "a">>
    /\ pending = <<>>
    /\ ~isLoading
    /\ error = Str(ErrorText)

(* t is the text raw without its leading and trailing whitespace *)
IsStripOf(t, raw) ==
    \E i \in 0..Len(raw) :
        /\ i + Len(t) <= Len(raw)
        /\ SubSeq(raw, i + 1, i + Len(t)) = t
        /\ \A k \in 1..Len(raw) : (k <= i \/ k > i + Len(t)) => raw[k] \in Whitespace
        /\ (t # <<>> => (t[1] \notin Whitespace /\ t[Len(t)] \notin Whitespace))

IsPrefix(short, long) ==
    Len(short) <= Len(long) /\ SubSeq(long, 1, Len(short)) = short

(* C11: every accepted submission issues exactly one request and nothing   *)
(* else issues one (no retry at a settlement); the request carries the     *)
(* trimmed input, which is also the content of the user message appended   *)
(* by the same submission, and when it is issued the input is empty, error *)
(* is null and isLoading is true.                                          *)
C11_OneRequestPerSubmission ==
    /\ [](issued = nextId - 1)
    /\ [][nextId' = nextId => (issued' = issued /\ Len(pending') <= Len(pending))]_vars
    /\ [][nextId' # nextId =>
            /\ issued' = issued + 1
            /\ Len(pending') = Len(pending) + 1
            /\ IsStripOf(pending'[Len(pending')].prompt, prompt)
            /\ pending'[Len(pending')].prompt # <<>>
            /\ messages' = Append(messages,
                   [role |-> "user", content |-> pending'[Len(pending')].prompt])
            /\ prompt' = <<>>
            /\ error' = Null
            /\ isLoading']_vars

C11_Witness ==
    /\ lastOp = "submit"
    /\ typed = <<" ", "a">>
    /\ pending = <<[id |-> 2, prompt |-> <<"a">>]>>
    /\ issued = 2
    /\ messages = <<[role |-> "user", content |-> <<"a">>]>>

(* C12: provided every issued request settles, each accepted submission is *)
(* followed by a settled state in which isLoading is false, nothing is     *)
(* outstanding and the form's controls are enabled again, on the success   *)
(* path and on the failure path alike.                                     *)
C12_EventuallyIdleAgain ==
    /\ (lastOp = "submit") ~>
          (lastOp \in {"resolved", "rejected"} /\ ~isLoading /\ ~Disabled /\ pending = <<>>)
    /\ [][Len(pending') < Len(pending) => (~isLoading' /\ ~Disabled')]_vars

C12_Witness ==
    /\ lastOp = "submit"
    /\ nextId = 3
    /\ lastReply = NoReply
    /\ before = <<>>
    /\ sent = <<"a", "a">>
    /\ isLoading

(* C13: from the acceptance of a submission to the settlement of its       *)
(* request nothing changes: messages is the list from before the submit    *)
(* plus the optimistic user message, the input is empty and error is null, *)
(* and no step taken in between alters any of them.                        *)
C13_FrozenWhileInFlight ==
    /\ [](isLoading =>
            /\ messages = Append(before, [role |-> "user", content |-> sent])
            /\ prompt = <<>>
            /\ error = Null)
    /\ [][(isLoading /\ isLoading')
            => UNCHANGED <<messages, prompt, error, isLoading, pending>>]_vars

C13_Witness ==
    /\ lastOp = "blocked"
    /\ isLoading
    /\ typed = <<"a", " ">>
    /\ messages = <<[role |-> "user", content |-> <<"a">>]>>
    /\ prompt = <<>>
    /\ error = Null

(* the conversation as of the last state in which nothing was in flight *)
SettledPart == IF isLoading THEN before ELSE messages

(* C14: the history is append-only.  The list of a state with no request   *)
(* in flight is a prefix of messages in that state and in every later one: *)
(* each step extends the settled list, and the settled list is always a    *)
(* prefix of messages (being a prefix is transitive).                      *)
C14_AppendOnly ==
    /\ [](IsPrefix(SettledPart, messages))
    /\ [][IsPrefix(SettledPart, SettledPart') /\ IsPrefix(SettledPart, messages')]_vars

C14_Witness ==
    /\ lastOp = "rejected"
    /\ sent = <<"a", "a">>
    /\ messages = <<[role |-> "user", content |-> <<"a">>],
                    [role |-> "agent", content |-> <<>>]>>
    /\ succeeded = 1

(* C15: from an accepted submission on, through its settlement on either   *)
(* path, the input is the empty string; after a failure the text is not    *)
(* put back into the input and no message of that submission is left in    *)
(* messages.                                                               *)
C15_PromptNotRetained ==
    /\ lastOp \in {"submit", "blocked", "resolved", "rejected"} => prompt = <<>>
    /\ lastOp = "rejected" =>
          /\ prompt # typed
          /\ messages = before
          /\ \A i \in 1..Len(owner) : owner[i] # nextId - 1

C15_Witness ==
    /\ lastOp = "rejected"
    /\ typed = <<"a", "a">>
    /\ prompt = <<>>
    /\ owner = <<1, 1>>
    /\ nextId = 3
    /\ messages = <<[role |-> "user", content |-> <<"a", "a">>],
                    [role |-> "agent", content |-> <<"o", "k">>]>>

(* C16: with the form's controls disabled while loading, isLoading and a   *)
(* displayed error exclude each other, and the length of messages is twice *)
(* the number of successful settlements, plus one while a request is in    *)
(* flight.                                                                 *)
C16_ErrorAndLength ==
    /\ isLoading => error = Null
    /\ Len(messages) = 2 * succeeded + (IF Len(pending) > 0 THEN 1 ELSE 0)

C16_Witness ==
    /\ isLoading
    /\ Len(pending) = 1
    /\ succeeded = 1
    /\ issued = 3
    /\ Len(messages) = 3
    /\ error = Null

====
